---- MODULE Spec2Model ----
(***************************************************************************)
(* Model of src/table.rs of latex-rs: Cell, Row, TableKind and Table.      *)
(*                                                                         *)
(* A Rust String is modelled as what it is, a sequence of UTF-8 bytes,     *)
(* where the code looks at its characters (column_types), and as a         *)
(* sequence of one-character strings where the code only copies and        *)
(* concatenates it (cell values, rendered rows).                           *)
(***************************************************************************)
EXTENDS Integers, Sequences, FiniteSets, TLC

VARIABLES table, row, document, call, ret

vars == <<table, row, document, call, ret>>

(* ----------------------------- bounds ---------------------------------- *)

\* most rows a table is given
MaxRows == 2
\* most cells a caller puts in one row
MaxCells == 2

(* ----------------------------- inputs ---------------------------------- *)

BOOL == {TRUE, FALSE}

\* cell contents a caller passes to push_cell: plain text, and text made of
\* the characters rendering itself adds
Contents == { <<"a">>, <<"&", "\\">> }

\* column_types strings a caller passes to Table::new, as code points: the
\* empty string, "X", "lX" and "llXrr" (the tests' strings) and the non-ASCII "é"
ColumnTypeInputs ==
    { <<>>, <<88>>, <<108, 88>>, <<233>>, <<108, 108, 88, 114, 114>> }

\* table_width strings a caller passes to Table::new
WidthInputs == { "textwidth", "" }

\* four calls of Table::new, one for each kind and each column count up to 2:
\* kind, table_width and column_types
NewInputs ==
    { <<"Tabularx", "textwidth", <<108, 88>> >>,
      <<"Tabular", "", <<88>> >>,
      <<"LongTable", "textwidth", <<233>> >>,
      <<"XLTabular", "textwidth", <<>> >> }

(* ----------------------------- strings --------------------------------- *)

\* the UTF-8 encoding of one code point below 2^16
Utf8Char(cp) ==
    IF cp < 128 THEN <<cp>>
    ELSE IF cp < 2048 THEN <<192 + (cp \div 64), 128 + (cp % 64)>>
    ELSE <<224 + (cp \div 4096), 128 + ((cp \div 64) % 64), 128 + (cp % 64)>>

RECURSIVE Utf8(_)
\* String::from: the bytes of a string given by its code points
Utf8(cps) ==
    IF cps = <<>> THEN <<>> ELSE Utf8Char(Head(cps)) \o Utf8(Tail(cps))

\* a continuation byte of a UTF-8 sequence, 0b10xxxxxx
IsContinuation(b) == b >= 128 /\ b < 192

\* a count of bytes in place of characters
CharsCountBytes(bytes) == Len(bytes)

\* str::chars().count(): one character per byte that starts a sequence
CharsCount(bytes) ==
    Cardinality({ i \in 1..Len(bytes) : ~IsContinuation(bytes[i]) })

(* ------------------------------ Cell ----------------------------------- *)

Cell(content) == [value |-> content]

\* impl Display for Cell: the value, as it is
CellFmt(cell) == cell.value

(* ------------------------------- Row ----------------------------------- *)

\* Row::new, through Default: no cells, both flags false
RowNew == [cells |-> <<>>, is_header |-> FALSE, is_first_header |-> FALSE]

\* a push_cell that puts the cell first
RowPushCellFront(r, content) ==
    [r EXCEPT !.cells = <<Cell(content)>> \o @]

\* Row::push_cell
RowPushCell(r, content) ==
    [r EXCEPT !.cells = Append(@, Cell(content))]

RECURSIVE Join(_, _)
\* [String]::join: nothing for no item, else the first item and then the
\* separator before every further item
Join(items, sep) ==
    IF items = <<>> THEN <<>>
    ELSE IF Len(items) = 1 THEN Head(items)
    ELSE Head(items) \o sep \o Join(Tail(items), sep)

\* the separator and the terminator of a rendered row
Separator == <<" ", "&", " ">>
Terminator == <<" ", "\\", "\\">>

\* a rendering that puts the separator after every cell
RowFmtTrailingSeparator(r) ==
    LET vals == [i \in 1..Len(r.cells) |-> CellFmt(r.cells[i]) \o Separator]
    IN  Join(vals, <<>>) \o Terminator

\* impl Display for Row
RowFmt(r) ==
    LET vals == [i \in 1..Len(r.cells) |-> CellFmt(r.cells[i])]
    IN  Join(vals, Separator) \o Terminator

(* ---------------------------- TableKind -------------------------------- *)

TableKind == {"Tabular", "Tabularx", "LongTable", "XLTabular"}

\* a mapping that gives XLTabular the name of Tabularx
EnvironmentNameShared(kind) ==
    CASE kind = "Tabular" -> "tabular"
      [] kind = "Tabularx" -> "tabularx"
      [] kind = "LongTable" -> "longtable"
      [] kind = "XLTabular" -> "tabularx"

\* TableKind::environment_name
EnvironmentName(kind) ==
    CASE kind = "Tabular" -> "tabular"
      [] kind = "Tabularx" -> "tabularx"
      [] kind = "LongTable" -> "longtable"
      [] kind = "XLTabular" -> "xltabular"

(* ------------------------------ results -------------------------------- *)

\* the value the last call returned
Unit == [tag |-> "Unit"]
Ok == [tag |-> "Ok"]
WrongNumberOfColumns(provided, required) ==
    [tag |-> "Err", provided |-> provided, required |-> required]
Usize(n) == [tag |-> "Usize", n |-> n]
Str(s) == [tag |-> "Str", s |-> s]
Text(t) == [tag |-> "Text", text |-> t]

(* ------------------------------ Table ---------------------------------- *)

\* Table::new
TableNew(kind, table_width, column_types) ==
    [kind |-> kind,
     rows |-> <<>>,
     table_width |-> table_width,
     column_count |-> CharsCount(column_types),
     column_types |-> column_types]

\* Table::column_count
ColumnCount(t) == t.column_count

\* a push_row that appends before it compares the counts
PushRowUnchecked(t, r) ==
    LET provided_cells == Len(r.cells)
    IN  [table |-> [t EXCEPT !.rows = Append(@, r)],
         ret |-> IF provided_cells = ColumnCount(t) THEN Ok
                 ELSE WrongNumberOfColumns(provided_cells, ColumnCount(t))]

\* a push_row that reports required and provided in the other order
PushRowSwapped(t, r) ==
    LET provided_cells == Len(r.cells)
    IN  IF provided_cells = ColumnCount(t)
        THEN [table |-> [t EXCEPT !.rows = Append(@, r)], ret |-> Ok]
        ELSE [table |-> t,
              ret |-> WrongNumberOfColumns(ColumnCount(t), provided_cells)]

\* a push_row that puts the row first
PushRowFront(t, r) ==
    LET provided_cells == Len(r.cells)
    IN  IF provided_cells = ColumnCount(t)
        THEN [table |-> [t EXCEPT !.rows = <<r>> \o @], ret |-> Ok]
        ELSE [table |-> t,
              ret |-> WrongNumberOfColumns(provided_cells, ColumnCount(t))]

\* a push_row that keeps only the row pushed last
PushRowKeepLast(t, r) ==
    LET provided_cells == Len(r.cells)
    IN  IF provided_cells = ColumnCount(t)
        THEN [table |-> [t EXCEPT !.rows = <<r>>], ret |-> Ok]
        ELSE [table |-> t,
              ret |-> WrongNumberOfColumns(provided_cells, ColumnCount(t))]

\* a push_row that does not count the cells of a header row
PushRowHeaderUnchecked(t, r) ==
    LET provided_cells == Len(r.cells)
    IN  IF r.is_header \/ provided_cells = ColumnCount(t)
        THEN [table |-> [t EXCEPT !.rows = Append(@, r)], ret |-> Ok]
        ELSE [table |-> t,
              ret |-> WrongNumberOfColumns(provided_cells, ColumnCount(t))]

\* Table::push_row: the table after the call and the value returned
PushRow(t, r) ==
    LET provided_cells == Len(r.cells)
    IN  IF provided_cells = ColumnCount(t)
        THEN [table |-> [t EXCEPT !.rows = Append(@, r)], ret |-> Ok]
        ELSE [table |-> t,
              ret |-> WrongNumberOfColumns(provided_cells, ColumnCount(t))]

\* Preamble::use_package: the package is registered with the preamble
UsePackage(doc, name) == [doc EXCEPT !.preamble = @ \cup {name}]

\* a prepare_document that registers the package named as the kind
PrepareDocumentByKind(t, doc) == UsePackage(doc, EnvironmentName(t.kind))

\* Table::prepare_document
PrepareDocument(t, doc) == UsePackage(doc, "tabularx")

(* ------------------------------ actions -------------------------------- *)

\* Table::new with one of NewInputs
Init ==
    /\ \E in \in NewInputs : table = TableNew(in[1], in[2], Utf8(in[3]))
    /\ row = RowNew
    /\ document = [preamble |-> {}]
    /\ call = [op |-> "new"]
    /\ ret = Unit

\* Table::new with any kind, table_width and column_types
InitUse ==
    /\ \E kind \in TableKind, w \in WidthInputs, cps \in ColumnTypeInputs :
           table = TableNew(kind, w, Utf8(cps))
    /\ row = RowNew
    /\ document = [preamble |-> {}]
    /\ call = [op |-> "new"]
    /\ ret = Unit

\* let mut row = Row::new();
DoRowNew ==
    /\ row' = RowNew
    /\ call' = [op |-> "row_new"]
    /\ ret' = Unit
    /\ UNCHANGED <<table, document>>

\* row.push_cell(content);
DoPushCell ==
    /\ Len(row.cells) < MaxCells
    /\ \E content \in Contents :
           /\ row' = RowPushCell(row, content)
           /\ call' = [op |-> "push_cell", content |-> content]
    /\ ret' = Unit
    /\ UNCHANGED <<table, document>>

\* row.is_header = h; row.is_first_header = fh;  (public fields)
DoSetHeader ==
    /\ \E h \in BOOL, fh \in BOOL :
           row' = [row EXCEPT !.is_header = h, !.is_first_header = fh]
    /\ call' = [op |-> "set_header"]
    /\ ret' = Unit
    /\ UNCHANGED <<table, document>>

\* table.push_row(row.clone()), while the table stays within MaxRows rows
DoPushRow ==
    /\ LET res == PushRow(table, row)
       IN  /\ Len(res.table.rows) <= MaxRows
           /\ table' = res.table
           /\ ret' = res.ret
    /\ call' = [op |-> "push_row"]
    /\ UNCHANGED <<row, document>>

\* table.column_count()
DoColumnCount ==
    /\ ret' = Usize(ColumnCount(table))
    /\ call' = [op |-> "column_count"]
    /\ UNCHANGED <<table, row, document>>

\* table.prepare_document(&mut document)
DoPrepareDocument ==
    /\ document' = PrepareDocument(table, document)
    /\ call' = [op |-> "prepare_document"]
    /\ ret' = Unit
    /\ UNCHANGED <<table, row>>

\* format!("{}", row)
DoRowFmt ==
    /\ ret' = Text(RowFmt(row))
    /\ call' = [op |-> "fmt"]
    /\ UNCHANGED <<table, row, document>>

\* table.kind.environment_name()
DoEnvironmentName ==
    /\ ret' = Str(EnvironmentName(table.kind))
    /\ call' = [op |-> "environment_name"]
    /\ UNCHANGED <<table, row, document>>

\* a table and the rows built and pushed to it
Next ==
    \/ DoRowNew
    \/ DoPushCell
    \/ DoSetHeader
    \/ DoPushRow

Spec == Init /\ [][Next]_vars

\* a table that is pushed rows of Row::new and push_cell, asked for its
\* column count and asked to prepare the document
NextUse ==
    \/ DoRowNew
    \/ DoPushCell
    \/ DoPushRow
    \/ DoColumnCount
    \/ DoPrepareDocument

SpecUse == InitUse /\ [][NextUse]_vars

\* a row as it is built and rendered, and the kind's environment name
NextRow ==
    \/ DoRowNew
    \/ DoPushCell
    \/ DoSetHeader
    \/ DoRowFmt
    \/ DoEnvironmentName

SpecRow == Init /\ [][NextRow]_vars

(* ------------------------------ claims --------------------------------- *)

RECURSIVE SumLen(_, _)
\* the number of characters of the first n cell values of a row
SumLen(r, n) == IF n = 0 THEN 0 ELSE SumLen(r, n - 1) + Len(r.cells[n].value)

\* where cell i of row r starts in the rendered row: after the earlier cell
\* values and one separator for each of them
StartOf(r, i) == 1 + SumLen(r, i - 1) + 3 * (i - 1)

\* a step is a call of op
Called(op) == call'.op = op

\* C1: every row stored in table.rows has exactly column_count() cells, in
\* every state reached by any sequence of accepted and rejected push_row calls.
C1_RowsHaveColumnCountCells ==
    \A i \in 1..Len(table.rows) :
        Len(table.rows[i].cells) = ColumnCount(table)

C1_Witness ==
    /\ call.op = "push_row"
    /\ ret.tag = "Err"
    /\ Len(table.rows) = 2
    /\ ColumnCount(table) = 2

\* C2: push_row of a row whose cell count differs from column_count() returns
\* Err(WrongNumberOfColumns(provided, required)), provided the row's cell count
\* and required the column count, and leaves table.rows as it was.
C2_MismatchIsRejected ==
    [][(Called("push_row") /\ Len(row.cells) # ColumnCount(table))
        => /\ ret'.tag = "Err"
           /\ ret'.provided = Len(row.cells)
           /\ ret'.required = ColumnCount(table)
           /\ table'.rows = table.rows]_vars

C2_Witness ==
    /\ call.op = "push_row"
    /\ ret = WrongNumberOfColumns(1, 2)
    /\ Len(row.cells) = 1
    /\ Len(table.rows) = 1

\* C3: push_row of a row whose cell count equals column_count() succeeds,
\* table.rows grows by exactly one element, the new last element equals the
\* row pushed, and the rows stored before keep their values and positions.
C3_MatchIsAppended ==
    [][(Called("push_row") /\ Len(row.cells) = ColumnCount(table))
        => /\ ret'.tag = "Ok"
           /\ Len(table'.rows) = Len(table.rows) + 1
           /\ table'.rows[Len(table'.rows)] = row
           /\ \A i \in 1..Len(table.rows) : table'.rows[i] = table.rows[i]]_vars

C3_Witness ==
    /\ call.op = "push_row"
    /\ ret = Ok
    /\ Len(table.rows) = 2
    /\ table.rows[2] = row
    /\ table.rows[1] # table.rows[2]
    /\ row.cells = <<Cell(<<"a">>), Cell(<<"&", "\\">>)>>
    /\ row.is_header /\ ~row.is_first_header

\* C4: column_count() is the number of characters of the column_types string
\* given to Table::new, in the state after construction and in every later
\* state, whatever push_row calls were made.
C4_ColumnCountIsCharCount ==
    \E cps \in ColumnTypeInputs :
        /\ table.column_types = Utf8(cps)
        /\ table.column_count = Len(cps)
        /\ call.op = "column_count" => (ret.tag = "Usize" /\ ret.n = Len(cps))

C4_Witness ==
    /\ call.op = "column_count"
    /\ ret = Usize(1)
    /\ Len(table.column_types) = 2
    /\ Len(table.rows) = 2

\* C5: table.rows only grows at its end: it starts empty, every step leaves
\* the rows stored so far as a prefix of the rows stored after it, a step
\* changes the rows only by appending the row an accepted push_row was given,
\* and a rejected push_row changes nothing.
C5_RowsOnlyGrowAtEnd ==
    /\ [](call.op = "new" => table.rows = <<>>)
    /\ [][/\ Len(table.rows) <= Len(table'.rows)
          /\ SubSeq(table'.rows, 1, Len(table.rows)) = table.rows
          /\ table'.rows # table.rows
               => /\ Called("push_row")
                  /\ ret'.tag = "Ok"
                  /\ table'.rows = table.rows \o <<row>>
          /\ (Called("push_row") /\ ret'.tag = "Err")
               => table'.rows = table.rows]_vars

C5_Witness ==
    /\ call.op = "push_row"
    /\ ret = Ok
    /\ Len(table.rows) = 2
    /\ table.rows[1] # table.rows[2]
    /\ ColumnCount(table) = 1

\* C6: a rendered row is its cell values, unmodified and in cell order, each
\* but the last followed by the separator " & ", and then the terminator, a
\* space and two backslashes; a row of no cells renders as the terminator
\* alone; is_header and is_first_header have no part in it.
C6_RowRendering ==
    call.op = "fmt" =>
        LET n == Len(row.cells)
            out == ret.text
        IN  /\ ret.tag = "Text"
            /\ Len(out) = SumLen(row, n) + 3 * (IF n = 0 THEN 0 ELSE n - 1) + 3
            /\ \A i \in 1..n :
                   LET from == StartOf(row, i)
                       to == from + Len(row.cells[i].value) - 1
                   IN  /\ SubSeq(out, from, to) = row.cells[i].value
                       /\ i < n => SubSeq(out, to + 1, to + 3) = <<" ", "&", " ">>
            /\ SubSeq(out, Len(out) - 2, Len(out)) = <<" ", "\\", "\\">>
            /\ n = 0 => out = <<" ", "\\", "\\">>

C6_Witness ==
    /\ call.op = "fmt"
    /\ row.cells = <<Cell(<<"a">>), Cell(<<"&", "\\">>)>>
    /\ row.is_header /\ row.is_first_header
    /\ ret.text = <<"a", " ", "&", " ", "&", "\\", " ", "\\", "\\">>

\* C7: environment_name maps Tabular to "tabular", Tabularx to "tabularx",
\* LongTable to "longtable" and XLTabular to "xltabular", and no two kinds to
\* the same name.
C7_EnvironmentNames ==
    /\ call.op = "environment_name" =>
           /\ ret.tag = "Str"
           /\ table.kind = "Tabular" => ret.s = "tabular"
           /\ table.kind = "Tabularx" => ret.s = "tabularx"
           /\ table.kind = "LongTable" => ret.s = "longtable"
           /\ table.kind = "XLTabular" => ret.s = "xltabular"
    /\ \A k1, k2 \in TableKind :
           k1 # k2 => EnvironmentName(k1) # EnvironmentName(k2)

C7_Witness ==
    /\ call.op = "environment_name"
    /\ table.kind = "XLTabular"
    /\ ret = Str("xltabular")

\* C8: prepare_document registers the package "tabularx" with the document's
\* preamble whatever the table's kind, rows and column types, and leaves the
\* table unchanged.
C8_PrepareDocumentRegistersTabularx ==
    [][Called("prepare_document")
        => /\ "tabularx" \in document'.preamble
           /\ table' = table]_vars

C8_Witness ==
    /\ call.op = "prepare_document"
    /\ table.kind = "LongTable"
    /\ Len(table.rows) = 2
    /\ "tabularx" \in document.preamble

\* C9: push_cell adds exactly one cell, holding the given content, after the
\* cells the row has, which keep their values and positions, and leaves
\* is_header and is_first_header unchanged; Row::new is a row of no cells with
\* both flags false.
C9_PushCellAppends ==
    [][/\ Called("push_cell")
            => /\ Len(row'.cells) = Len(row.cells) + 1
               /\ row'.cells[Len(row'.cells)].value = call'.content
               /\ \A i \in 1..Len(row.cells) : row'.cells[i] = row.cells[i]
               /\ row'.is_header = row.is_header
               /\ row'.is_first_header = row.is_first_header
       /\ Called("row_new")
            => /\ row'.cells = <<>>
               /\ ~row'.is_header
               /\ ~row'.is_first_header]_vars

C9_Witness ==
    /\ call.op = "push_cell"
    /\ call.content = <<"&", "\\">>
    /\ Len(row.cells) = 2
    /\ row.cells[1].value = <<"a">>
    /\ row.cells[2].value = <<"&", "\\">>
    /\ row.is_first_header

\* C10: push_row accepts a row exactly when its cell count equals the table's
\* column_count, whatever the cell contents, the header flags, the kind and
\* the rows stored; it leaves kind, table_width, column_types and column_count
\* unchanged; a rejected push leaves the whole table as it was, so the pushes
\* after it go as if it had not been made.
C10_AcceptanceDependsOnCountOnly ==
    [][Called("push_row")
        => /\ ret'.tag \in {"Ok", "Err"}
           /\ ret'.tag = "Ok" <=> Len(row.cells) = table.column_count
           /\ table'.kind = table.kind
           /\ table'.table_width = table.table_width
           /\ table'.column_types = table.column_types
           /\ table'.column_count = table.column_count
           /\ ret'.tag = "Err" => table' = table]_vars

C10_Witness ==
    /\ call.op = "push_row"
    /\ ret = Ok
    /\ Len(table.rows) = 2
    /\ row.is_header
    /\ table.rows[1].is_header # table.rows[2].is_header
    /\ table.rows[1].cells # table.rows[2].cells
    /\ table.kind = "Tabular"
====
